---- MODULE Spec2Model ----
(***************************************************************************)
(* CaseIteratorDriver (openmdao.lib.drivers.caseiterdriver): the driver    *)
(* that pulls cases from an iterator, runs them on the local model         *)
(* (sequential mode) or on servers obtained from the resource allocation   *)
(* manager (concurrent mode), and appends them to the recorder.            *)
(*                                                                         *)
(* Threads: the orchestrator (execute/_start/_server_ready/_run_case) and  *)
(* one _service_loop thread per started server.  Channels: one request     *)
(* queue per registered server and the shared reply queue.                 *)
(***************************************************************************)
EXTENDS Integers, Sequences, FiniteSets, Bags, TLC

\* ---------------------------------------------------------------- bounds
MaxCases   == 2     \* longest iterator
MaxServers == 2     \* largest answer of RAM.max_servers
MaxFaults  == 1     \* infrastructure faults injected in one run
MaxRetries == 1     \* largest max_retries of the driver or of a case
MaxInputs  == 2     \* most inputs of a Case object
MaxListLen == 2     \* longest list held by a Case object

\* ------------------------------------------------------------- constants
None      == -1          \* Python None in a numeric or reference slot
NoneS     == "None"      \* Python None in a string or exception slot

_EMPTY    == "empty"
_READY    == "ready"
_COMPLETE == "complete"
_ERROR    == "error"
States    == {_EMPTY, _READY, _COMPLETE, _ERROR}

SetMsg    == "Exception setting"    \* str(ServerError) of _run_case
GetMsg    == "Exception getting"    \* message of a failed output read
ExcMsg    == "model exception"      \* an exception of model.run(), with text
ExcNoText == "Exception()"          \* an exception of model.run() without text

LoadReq   == "load_model"           \* request (_remote_load_model, server)
ExecReq   == "model_execute"        \* request (_remote_model_execute, server)
StopReq   == "None"                 \* request None: shut down

EmptyFn   == [x \in {} |-> None]

VARIABLES
    \* driver configuration and environment, fixed during one execute()
    sequential, reload_model, max_retries, win32, ram_max_servers, iter_len,
    case_max_retries,
    \* orchestrator
    pc, exc, stop, n_servers, kick, shut_left,
    egg_file, egg_on_disk,
    \* dispatcher state
    iter_pos, cases, todo, rerun, recorder,
    servers, top_levels, server_info, queues, in_use,
    server_states, server_cases, exceptions,
    \* channels and lock
    reply_queue, reply_queue_live, server_lock,
    \* _service_loop threads
    wpc, wreq, released,
    \* bookkeeping of the environment
    faults, last_load, unexpected,
    \* Case objects (openmdao.main.case) and the results of their methods
    lib_pc, lib_a, lib_b, lib_sub, lib_eq

lib     == <<lib_pc, lib_a, lib_b, lib_sub, lib_eq>>
\* what no step of the driver changes: its configuration, and the Case
\* objects lib, which only the methods of Case read
config  == <<sequential, reload_model, max_retries, win32, ram_max_servers,
             iter_len, case_max_retries, lib>>
orch    == <<pc, exc, n_servers, kick, shut_left, egg_file, egg_on_disk>>
disp    == <<iter_pos, cases, todo, rerun, recorder, in_use,
             server_states, server_cases>>
shared  == <<servers, top_levels, server_info, queues, exceptions>>
chans   == <<reply_queue, reply_queue_live, server_lock>>
threads == <<wpc, wreq, released>>
env     == <<faults, last_load, unexpected>>
vars    == <<config, orch, stop, disp, shared, chans, threads, env>>

\* ---------------------------------------------------------------- cases
\* The iterator hands out cases[iter_pos + 1 .. iter_len] one by one; every
\* case was built with max_retries = case_max_retries (None or a number).
\* Case.__init__: retries None, msg None.  `raises`, `raised`, `reruns`,
\* `setup_failures` and `err` are not fields of Case: whether the model
\* raised on the case's inputs and what, the number of _run_case(rerun=True)
\* calls, the number of ServerErrors of _run_case and the class of the last
\* failure.
NewCase ==
    [max_retries |-> case_max_retries, retries |-> None, msg |-> NoneS,
     raises |-> FALSE, raised |-> NoneS, reruns |-> 0, setup_failures |-> 0,
     err |-> "none"]

\* Python truth value of case.max_retries and of case.msg
Falsy(n)    == n = None \/ n = 0
NoMsg(m)    == m = NoneS \/ m = ""

_busy == \E n \in DOMAIN in_use : in_use[n]

Put(q, x) == Append(q, x)

\* ------------------------------------------------------ Case (case.py)
\* A value is <<type, payload>>: an int, None, the _Missing sentinel, an
\* object of a type without flattener, or a flat list of ints.
IntV(n)  == <<"int", <<n>>>>
NoneV    == <<"NoneType", <<>>>>
_Missing == <<"_Missing", <<>>>>
ObjV(n)  == <<"object", <<n>>>>
ListV(l) == <<"list", l>>

\* A dict is the sequence of its (name, value) items in iteration order.
DictNames(d) == [i \in DOMAIN d |-> d[i][1]]
DictHas(d, name) == \E i \in DOMAIN d : d[i][1] = name
DictGet(d, name) == d[CHOOSE i \in DOMAIN d : d[i][1] = name][2]
DictSet(d, name, value) ==
    IF DictHas(d, name)
    THEN [i \in DOMAIN d |-> IF d[i][1] = name THEN <<name, value>> ELSE d[i]]
    ELSE Append(d, <<name, value>>)

RECURSIVE DictUpdate(_, _)
DictUpdate(d, entries) ==
    IF entries = <<>> THEN d
    ELSE DictUpdate(DictSet(d, Head(entries)[1], Head(entries)[2]), Tail(entries))

\* Case(inputs=..., outputs=...): _outputs stays None (here <<>>) unless an
\* output is added
NewCaseObj(inputs, outputs) ==
    [inputs  |-> IF inputs # <<>> THEN DictUpdate(<<>>, inputs) ELSE <<>>,
     outputs |-> IF outputs # <<>> THEN DictUpdate(<<>>, outputs) ELSE <<>>,
     msg |-> NoneS, label |-> ""]

_simpleflatten(name, obj) == << <<name, <<>>, obj[2][1]>> >>
_flatten_lst(name, lst) == [i \in DOMAIN lst[2] |-> <<name, <<i - 1>>, lst[2][i]>>]
flatten_obj(name, obj) ==
    IF obj[1] = "int" THEN _simpleflatten(name, obj)
    ELSE IF obj[1] = "list" THEN _flatten_lst(name, obj)
    ELSE <<>>

RECURSIVE FlattenDict(_)
FlattenDict(d) ==
    IF d = <<>> THEN <<>>
    ELSE flatten_obj(Head(d)[1], Head(d)[2]) \o FlattenDict(Tail(d))

get_inputs(c, flatten)  == IF flatten THEN FlattenDict(c.inputs) ELSE c.inputs
get_outputs(c, flatten) == IF flatten THEN FlattenDict(c.outputs) ELSE c.outputs
Case_items(c, flatten) ==
    IF c.outputs # <<>> THEN get_inputs(c, flatten) \o get_outputs(c, flatten)
    ELSE get_inputs(c, flatten)
Case_keys(c) == DictNames(Case_items(c, FALSE))
Case_len(c) == Len(c.inputs) + Len(c.outputs)

\* subcase: the loop over names, with the inputs and outputs collected so far
RECURSIVE subcase_loop(_, _, _, _)
subcase_loop(c, names, ins, outs) ==
    IF names = <<>>
    THEN [raised |-> NoneS, case |-> NewCaseObj(ins, outs)]
    ELSE LET name == Head(names)
             val  == IF DictHas(c.inputs, name) THEN DictGet(c.inputs, name)
                     ELSE NoneV
         IN  IF val # NoneV
             THEN subcase_loop(c, Tail(names), Append(ins, <<name, val>>), outs)
             ELSE IF c.outputs # <<>> /\ DictHas(c.outputs, name)
             THEN subcase_loop(c, Tail(names), ins,
                               Append(outs, <<name, DictGet(c.outputs, name)>>))
             ELSE [raised |-> "KeyError", case |-> NewCaseObj(<<>>, <<>>)]
Case_subcase(c, names) == subcase_loop(c, names, <<>>, <<>>)

Min(a, b) == IF a < b THEN a ELSE b
\* zip stops at the end of the shorter list
Zip(s, t) == [i \in 1..Min(Len(s), Len(t)) |-> <<s[i], t[i]>>]
Case_eq(self, other) ==
    IF self.msg # other.msg \/ self.label # other.label THEN FALSE
    ELSE IF Case_len(self) # Case_len(other) THEN FALSE
    ELSE LET z == Zip(Case_items(self, TRUE), Case_items(other, TRUE))
         IN  \A i \in DOMAIN z :
                 ~(z[i][1][1] # z[i][2][1] \/ z[i][1][2] # z[i][2][2]
                   \/ z[i][1][3] # z[i][2][3])

\* the Case objects the methods are applied to
InputNames   == {"x", "y"}
OutputNames  == {"o"}
Lists        == {ListV([i \in 1..n |-> 0]) : n \in 0..MaxListLen}
InputValues  == {IntV(0), IntV(1), NoneV, ObjV(0), ObjV(1)} \cup Lists
OutputValues == InputValues \cup {_Missing}
Dicts(names, values, n) ==
    UNION {{d \in [1..k -> names \X values] :
                \A i, j \in 1..k : d[i][1] = d[j][1] => i = j} : k \in 0..n}
CaseObjs ==
    [inputs : Dicts(InputNames, InputValues, MaxInputs),
     outputs : Dicts(OutputNames, OutputValues, 1),
     msg : {NoneS}, label : {""}]
\* a second object like c: one value, the last input, msg or label changed
Changed(d, values) ==
    {[d EXCEPT ![i] = <<d[i][1], v>>] : i \in DOMAIN d, v \in values}
Others(c) ==
    LET ins  == {c.inputs} \cup Changed(c.inputs, InputValues)
                \cup (IF c.inputs = <<>> THEN {}
                      ELSE {SubSeq(c.inputs, 1, Len(c.inputs) - 1)})
        outs == {c.outputs} \cup Changed(c.outputs, OutputValues)
    IN  {o \in [inputs : ins, outputs : outs,
                msg : {NoneS, "err"}, label : {"", "l"}] :
            \/ o.inputs = c.inputs \/ o.outputs = c.outputs}
NoCase    == NewCaseObj(<<>>, <<>>)
NoSubcase == [raised |-> NoneS, case |-> NoCase]

DriverInit ==
    /\ sequential \in BOOLEAN
    /\ reload_model \in BOOLEAN
    /\ max_retries \in 0..MaxRetries
    /\ win32 \in BOOLEAN
    /\ ram_max_servers \in 0..MaxServers
    /\ iter_len \in 0..MaxCases
    /\ case_max_retries \in {None} \cup (0..MaxRetries)
    /\ pc = "execute" /\ exc = NoneS /\ stop = FALSE
    /\ n_servers = 0 /\ kick = {} /\ shut_left = 0
    /\ egg_file = NoneS /\ egg_on_disk = FALSE
    /\ iter_pos = 0 /\ cases = <<>> /\ todo = <<>> /\ rerun = <<>>
    /\ recorder = <<>>
    /\ servers = EmptyFn /\ top_levels = EmptyFn /\ server_info = EmptyFn
    /\ queues = EmptyFn /\ in_use = EmptyFn
    /\ server_states = EmptyFn /\ server_cases = EmptyFn
    /\ exceptions = EmptyFn
    /\ reply_queue = <<>> /\ reply_queue_live = FALSE /\ server_lock = NoneS
    /\ wpc = EmptyFn /\ wreq = EmptyFn /\ released = EmptyFn
    /\ faults = 0 /\ last_load = EmptyFn /\ unexpected = FALSE

Init ==
    /\ DriverInit
    /\ lib_pc = "none" /\ lib_a = NoCase /\ lib_b = NoCase
    /\ lib_sub = NoSubcase /\ lib_eq = FALSE

\* ------------------------------------------------------------ dispatcher
Set(f, k, v) == (k :> v) @@ f         \* d[k] = v on a Python dict

\* next() of the iterator: the cases handed out so far are cases[1..iter_pos]
HasNext == iter_pos < iter_len

\* _load_model: the sequential model needs no load; a remote load is only
\* queued for the server's thread, and True is returned at once.
_load_model(server, q) ==
    IF server = None THEN q ELSE [q EXCEPT ![server] = Put(@, LoadReq)]

\* self._queues[server] of _load_model raises KeyError for a server that
\* never registered a request queue.
_load_model_raises(server) == server # None /\ server \notin DOMAIN queues

\* the load that _load_model stands for: done (sequential) or pending
LoadIssued(server, ll) ==
    Set(ll, server, IF server = None THEN "ok" ELSE "pending")

\* _run_case, lines 345-348: retry counters on the first attempt
FirstMaxRetries(mr) == IF Falsy(mr) THEN max_retries ELSE mr

\* a variant of line 364 that allows one retry too many
RetryAllowed_OffByOne(retries, mr) == retries <= mr

\* _run_case, line 364: is there retry budget left
RetryAllowed(retries, mr) == retries < mr

\* a variant of line 366 that drops the failed case
RerunAppend_Dropped(rr, c) == rr

\* _run_case, line 366: the case goes to the end of the rerun list
RerunAppend(rr, c) == Append(rr, c)

\* _model_set on the server: a remote set on a server without a top-level
\* object fails (KeyError); any set may fail while faults can be injected.
SetOutcomes(server) ==
    IF server # None /\ server \notin DOMAIN top_levels THEN {FALSE}
    ELSE IF faults < MaxFaults THEN {TRUE, FALSE} ELSE {TRUE}

SetIsFault(server, setok) ==
    ~setok /\ (server = None \/ server \in DOMAIN top_levels)

\* _model_get of the outputs of a completed case
GetOutcomes == IF faults < MaxFaults THEN {TRUE, FALSE} ELSE {TRUE}

\* model.run() on the inputs of a case: it returns (None) or raises an
\* exception, whose text may be empty (the model is deterministic, and a
\* case is run at most once)
RunOutcomes == {NoneS, ExcMsg, ExcNoText}

\* _model_execute: the sequential model runs at once and its exception is
\* kept; a remote run is queued for the server's thread.
_model_execute_exc(server, raised) ==
    Set(exceptions, server, IF server = None THEN raised ELSE NoneS)

_model_execute_q(server) ==
    IF server = None THEN queues ELSE [queues EXCEPT ![server] = Put(@, ExecReq)]

\* _run_case(case, server, rerun): cs is the case store and rr the rerun
\* list as the caller left them, setok the outcome of setting the inputs.
_run_case(c, server, is_rerun, cs, rr, setok) ==
    LET mr == IF is_rerun THEN cs[c].max_retries
                          ELSE FirstMaxRetries(cs[c].max_retries)
        rt == IF is_rerun THEN cs[c].retries ELSE 0
        c0 == [cs[c] EXCEPT !.max_retries = mr, !.retries = rt, !.msg = NoneS,
                            !.reruns = IF is_rerun THEN @ + 1 ELSE @,
                            !.err = "none"]
    IN  /\ server_cases' = Set(server_cases, server, c)
        /\ faults' = IF SetIsFault(server, setok) THEN faults + 1 ELSE faults
        /\ IF setok
           THEN /\ \E raised \in (IF server = None THEN RunOutcomes
                                                    ELSE {NoneS}) :
                     /\ cases' = [cs EXCEPT ![c] =
                                      [c0 EXCEPT !.raises = (raised # NoneS),
                                                 !.raised = raised]]
                     /\ exceptions' = _model_execute_exc(server, raised)
                /\ queues' = _model_execute_q(server)
                /\ server_states' = Set(server_states, server, _COMPLETE)
                /\ rerun' = rr
                /\ recorder' = recorder
           ELSE /\ server_states' = Set(server_states, server, _ERROR)
                /\ UNCHANGED <<exceptions, queues>>
                /\ IF RetryAllowed(c0.retries, c0.max_retries)
                   THEN /\ cases' = [cs EXCEPT ![c] =
                                [c0 EXCEPT !.retries = @ + 1,
                                           !.setup_failures = @ + 1,
                                           !.err = "ServerError"]]
                        /\ rerun' = RerunAppend(rr, c)
                        /\ recorder' = recorder
                   ELSE /\ cases' = [cs EXCEPT ![c] =
                                [c0 EXCEPT !.msg = SetMsg,
                                           !.setup_failures = @ + 1,
                                           !.err = "ServerError"]]
                        /\ rerun' = rr
                        /\ recorder' = Append(recorder, c)

\* _server_ready, state _EMPTY
EmptyStep(server, ret) ==
    IF _load_model_raises(server)
    THEN /\ ret = "KeyError"
         /\ UNCHANGED <<iter_pos, cases, todo, rerun, recorder, server_states,
                        server_cases, queues, exceptions, faults, last_load,
                        unexpected>>
    ELSE /\ ret = "True"
         /\ queues' = _load_model(server, queues)
         /\ last_load' = LoadIssued(server, last_load)
         /\ server_states' = Set(server_states, server, _READY)
         /\ UNCHANGED <<iter_pos, cases, todo, rerun, recorder, server_cases,
                        exceptions, faults, unexpected>>

\* _server_ready, state _READY, line 275: the test for a stop request
StopObserved == stop

\* a variant of lines 286-294 that gives the server up when it takes a case
\* from the iterator
ReadyInUse_StopsEarly ==
    IF StopObserved THEN FALSE
    ELSE todo # <<>> \/ rerun # <<>>

\* _server_ready, state _READY: in_use as returned
ReadyInUse ==
    IF StopObserved THEN FALSE
    ELSE todo # <<>> \/ rerun # <<>> \/ HasNext

\* a variant of lines 280-283 that serves the rerun list first
SelectSource_RerunFirst ==
    IF rerun # <<>> THEN "rerun"
    ELSE IF todo # <<>> THEN "todo"
    ELSE IF HasNext THEN "iterator"
    ELSE "none"

\* _server_ready, state _READY, lines 280-289: where the next case comes from
SelectSource ==
    IF todo # <<>> THEN "todo"
    ELSE IF rerun # <<>> THEN "rerun"
    ELSE IF HasNext THEN "iterator"
    ELSE "none"

\* _server_ready, state _READY, lines 280-294: select the case to run
ReadyStep(server, ret) ==
    /\ ret = IF ReadyInUse THEN "True" ELSE "False"
    /\ UNCHANGED <<last_load, unexpected>>
    /\ IF SelectSource = "todo"
       THEN /\ todo' = Tail(todo)
            /\ iter_pos' = iter_pos
            /\ \E setok \in SetOutcomes(server) :
                 _run_case(Head(todo), server, FALSE, cases, rerun, setok)
       ELSE IF SelectSource = "rerun"
       THEN /\ UNCHANGED <<todo, iter_pos>>
            /\ \E setok \in SetOutcomes(server) :
                 _run_case(Head(rerun), server, TRUE, cases, Tail(rerun), setok)
       ELSE IF SelectSource = "iterator"
       THEN /\ todo' = todo
            /\ iter_pos' = iter_pos + 1
            /\ \E setok \in SetOutcomes(server) :
                 _run_case(iter_pos + 1, server, FALSE,
                           Append(cases, NewCase), rerun, setok)
       ELSE UNCHANGED <<iter_pos, cases, todo, rerun, recorder, server_states,
                        server_cases, queues, exceptions, faults>>

\* a variant of line 312 that loses the text of the exception
ExceptionMsg_Lost(e) == NoneS

\* _server_ready, state _COMPLETE, line 312: case.msg = str(exc)
ExceptionMsg(e) == IF e = ExcNoText THEN "" ELSE e

\* a variant of lines 316-322 that reloads only when reload_model is set
ReloadWanted_OnlyIfAsked(msg) == reload_model

\* _server_ready, state _COMPLETE, line 316: reload after the case
ReloadWanted(msg) == IF NoMsg(msg) THEN reload_model ELSE TRUE

\* _server_ready, state _COMPLETE
CompleteStep(server, ret) ==
    LET c == server_cases[server]
        e == exceptions[server]
    IN  /\ ret = "True"
        /\ \E getok \in (IF e = NoneS THEN GetOutcomes ELSE {TRUE}) :
             LET msg == IF e # NoneS THEN ExceptionMsg(e)
                        ELSE IF getok THEN cases[c].msg ELSE GetMsg
                 err == IF e # NoneS THEN "ModelException"
                        ELSE IF getok THEN cases[c].err ELSE "OutputReadError"
             IN  /\ faults' = IF getok THEN faults ELSE faults + 1
                 /\ cases' = [cases EXCEPT ![c] =
                                  [@ EXCEPT !.msg = msg, !.err = err]]
                 /\ recorder' = Append(recorder, c)
                 /\ queues' = IF ReloadWanted(msg)
                              THEN _load_model(server, queues) ELSE queues
                 /\ last_load' = IF ReloadWanted(msg)
                                 THEN LoadIssued(server, last_load)
                                 ELSE last_load
        /\ server_cases' = Set(server_cases, server, None)
        /\ server_states' = Set(server_states, server, _READY)
        /\ UNCHANGED <<iter_pos, todo, rerun, exceptions, unexpected>>

\* a variant of line 335 that starts the server over
ErrorRecovered_Restart == _EMPTY

\* _server_ready, state _ERROR, line 335: the state after the load
ErrorRecovered == _READY

\* _server_ready, state _ERROR
ErrorStep(server, ret) ==
    /\ ret = "True"
    /\ server_cases' = Set(server_cases, server, None)
    /\ queues' = _load_model(server, queues)
    /\ last_load' = LoadIssued(server, last_load)
    /\ server_states' = Set(server_states, server, ErrorRecovered)
    /\ UNCHANGED <<iter_pos, cases, todo, rerun, recorder, exceptions, faults,
                   unexpected>>

\* _server_ready, the else branch: 'unexpected state'
UnexpectedStep(server, ret) ==
    /\ ret = "False"
    /\ unexpected' = TRUE
    /\ UNCHANGED <<iter_pos, cases, todo, rerun, recorder, server_states,
                   server_cases, queues, exceptions, faults, last_load>>

\* _server_ready(server): one step of the server's state machine; ret is
\* in_use as returned ("True"/"False"), or "KeyError" when the call raises.
_server_ready(server, ret) ==
    LET state == server_states[server]
    IN  IF state = _EMPTY THEN EmptyStep(server, ret)
        ELSE IF state = _READY THEN ReadyStep(server, ret)
        ELSE IF state = _COMPLETE THEN CompleteStep(server, ret)
        ELSE IF state = _ERROR THEN ErrorStep(server, ret)
        ELSE UnexpectedStep(server, ret)

Rets == {"True", "False", "KeyError"}

\* ---------------------------------------------------------- orchestrator
\* Callers of _server_ready: what a raised KeyError or the returned in_use
\* does to the orchestrator.
AfterReady(name, ret, next_pc) ==
    IF ret = "KeyError"
    THEN /\ pc' = "cleanup"
         /\ exc' = "KeyError"
         /\ in_use' = in_use
    ELSE /\ pc' = next_pc
         /\ exc' = exc
         /\ in_use' = Set(in_use, name, ret = "True")

\* a variant of lines 138-146 that sets the None server up and runs the
\* loop whether or not the iterator had a first case
PrePulled_Always == TRUE

\* lines 138-142: the first next() of the iterator did not raise
\* StopIteration
PrePulled == HasNext

\* execute -> _start, sequential: pre-pull one case and create the state of
\* the None server; an empty iterator goes straight to _cleanup.
StartSequential ==
    /\ pc = "execute" /\ sequential
    /\ IF PrePulled
       THEN /\ cases' = Append(cases, NewCase)
            /\ iter_pos' = iter_pos + 1
            /\ todo' = Append(todo, iter_pos + 1)
            /\ server_cases' = Set(server_cases, None, None)
            /\ server_states' = Set(server_states, None, _EMPTY)
            /\ pc' = "seq"
       ELSE /\ pc' = "cleanup"
            /\ UNCHANGED <<cases, iter_pos, todo, server_cases, server_states>>
    /\ UNCHANGED <<config, exc, n_servers, kick, shut_left, egg_file,
                   egg_on_disk, stop, rerun, recorder, in_use, shared, chans,
                   threads, env>>

\* a variant of line 167 that lets max_servers = 0 through
NoCapacity_Negative == ram_max_servers < 0

\* line 167: no server supports the required resources
NoCapacity == ram_max_servers <= 0

\* execute -> _start, concurrent: save the egg, ask for max_servers, create
\* the lock and the reply queue.
StartConcurrent ==
    /\ pc = "execute" /\ ~sequential
    /\ egg_file' = "egg" /\ egg_on_disk' = TRUE
    /\ IF NoCapacity
       THEN /\ exc' = "RuntimeError"
            /\ pc' = "cleanup"
            /\ UNCHANGED <<reply_queue_live, server_lock>>
       ELSE /\ server_lock' = "free"
            /\ reply_queue_live' = TRUE
            /\ pc' = "startup"
            /\ exc' = exc
    /\ UNCHANGED <<config, n_servers, kick, shut_left, stop, disp, shared,
                   reply_queue, threads, env>>

\* while self._server_ready(None): pass
SeqLoop ==
    /\ pc = "seq"
    /\ \E ret \in Rets :
         /\ _server_ready(None, ret)
         /\ pc' = IF ret = "True" THEN "seq" ELSE "cleanup"
    /\ UNCHANGED <<config, exc, n_servers, kick, shut_left, egg_file,
                   egg_on_disk, stop, in_use, servers, top_levels,
                   server_info, chans, threads>>

\* a variant of lines 175-181 without the break on an exhausted iterator
StartupGoesOn_NoBreak == n_servers < ram_max_servers

\* lines 175-181: the startup loop goes on while fewer than max_servers were
\* started and the iterator has a case or a case is to be rerun
StartupGoesOn == n_servers < ram_max_servers /\ (HasNext \/ rerun # <<>>)

\* a variant of line 196 that overlaps startup and work on every platform
AfterStart_Overlapped == "poll"

\* lines 196-202: after a thread is started, wait for its reply (win32) or
\* process the pending replies (other platforms)
AfterStart == IF win32 THEN "win_recv" ELSE "poll"

\* the startup loop, lines 175-194: take the next case and start a thread
StartServer ==
    /\ pc = "startup"
    /\ StartupGoesOn
    /\ IF HasNext
       THEN /\ cases' = Append(cases, NewCase)
            /\ iter_pos' = iter_pos + 1
            /\ todo' = Append(todo, iter_pos + 1)
       ELSE UNCHANGED <<cases, iter_pos, todo>>
    /\ LET name == n_servers + 1
       IN  /\ n_servers' = name
           /\ servers' = Set(servers, name, None)
           /\ in_use' = Set(in_use, name, TRUE)
           /\ server_cases' = Set(server_cases, name, None)
           /\ server_states' = Set(server_states, name, _EMPTY)
           /\ wpc' = Set(wpc, name, "allocate")
           /\ wreq' = Set(wreq, name, NoneS)
           /\ released' = Set(released, name, 0)
    /\ pc' = AfterStart
    /\ UNCHANGED <<config, exc, kick, shut_left, egg_file, egg_on_disk, stop,
                   rerun, recorder, top_levels, server_info, queues,
                   exceptions, chans, env>>

\* the startup loop ends: max_servers started, or the iterator is exhausted
\* and nothing is to be rerun
StartupDone ==
    /\ pc = "startup"
    /\ ~StartupGoesOn
    /\ pc' = IF win32 THEN "kickoff" ELSE "drain"
    /\ kick' = IF win32 THEN DOMAIN in_use ELSE kick
    /\ UNCHANGED <<config, exc, n_servers, shut_left, egg_file, egg_on_disk,
                   stop, disp, shared, chans, threads, env>>

\* win32, lines 196-201: wait for the reply of the thread just started
WinRecv ==
    /\ pc = "win_recv"
    /\ reply_queue # <<>>
    /\ LET name == Head(reply_queue)[1]
       IN  in_use' = IF servers[name] = None
                     THEN Set(in_use, name, FALSE) ELSE in_use
    /\ reply_queue' = Tail(reply_queue)
    /\ pc' = "startup"
    /\ UNCHANGED <<config, exc, n_servers, kick, shut_left, egg_file,
                   egg_on_disk, stop, iter_pos, cases, todo, rerun, recorder,
                   server_states, server_cases, shared, reply_queue_live,
                   server_lock, threads, env>>

\* other platforms, lines 204-214: a reply arrived within the timeout
PollRecv ==
    /\ pc = "poll"
    /\ _busy
    /\ reply_queue # <<>>
    /\ reply_queue' = Tail(reply_queue)
    /\ LET name == Head(reply_queue)[1]
       IN  IF servers[name] = None
           THEN /\ in_use' = Set(in_use, name, FALSE)
                /\ UNCHANGED <<pc, exc, iter_pos, cases, todo, rerun, recorder,
                               server_states, server_cases, queues, exceptions,
                               env>>
           ELSE \E ret \in Rets :
                  /\ _server_ready(name, ret)
                  /\ AfterReady(name, ret, "poll")
    /\ UNCHANGED <<config, n_servers, kick, shut_left, egg_file, egg_on_disk,
                   stop, servers, top_levels, server_info, reply_queue_live,
                   server_lock, threads>>

\* other platforms: no server is busy, or the 0.1 s receive timed out
PollBreak ==
    /\ pc = "poll"
    /\ ~_busy \/ reply_queue = <<>>
    /\ pc' = "startup"
    /\ UNCHANGED <<config, exc, n_servers, kick, shut_left, egg_file,
                   egg_on_disk, stop, disp, shared, chans, threads, env>>

\* win32, lines 216-220: kick off the servers started one by one
Kickoff ==
    /\ pc = "kickoff"
    /\ kick # {}
    /\ \E name \in kick :
         /\ kick' = kick \ {name}
         /\ IF in_use[name]
            THEN \E ret \in Rets :
                   /\ _server_ready(name, ret)
                   /\ AfterReady(name, ret, "kickoff")
            ELSE UNCHANGED <<pc, exc, disp, queues, exceptions, env>>
    /\ UNCHANGED <<config, n_servers, shut_left, egg_file, egg_on_disk, stop,
                   servers, top_levels, server_info, chans, threads>>

KickoffDone ==
    /\ pc = "kickoff"
    /\ kick = {}
    /\ pc' = "drain"
    /\ UNCHANGED <<config, exc, n_servers, kick, shut_left, egg_file,
                   egg_on_disk, stop, disp, shared, chans, threads, env>>

\* lines 223-225: continue until no servers are busy
DrainRecv ==
    /\ pc = "drain"
    /\ _busy
    /\ reply_queue # <<>>
    /\ reply_queue' = Tail(reply_queue)
    /\ LET name == Head(reply_queue)[1]
       IN  \E ret \in Rets :
             /\ _server_ready(name, ret)
             /\ AfterReady(name, ret, "drain")
    /\ UNCHANGED <<config, n_servers, kick, shut_left, egg_file, egg_on_disk,
                   stop, servers, top_levels, server_info, reply_queue_live,
                   server_lock, threads>>

\* lines 228-229: put None on the queue of every registered server
Shutdown ==
    /\ pc = "drain"
    /\ ~_busy
    /\ queues' = [n \in DOMAIN queues |-> Put(queues[n], StopReq)]
    /\ shut_left' = Cardinality(DOMAIN queues)
    /\ pc' = "shutdown"
    /\ UNCHANGED <<config, exc, n_servers, kick, egg_file, egg_on_disk, stop,
                   disp, servers, top_levels, server_info, exceptions, chans,
                   threads, env>>

\* lines 230-234: one reply per registered server, each within 1 s
ShutdownRecv ==
    /\ pc = "shutdown"
    /\ shut_left > 0
    /\ reply_queue # <<>>
    /\ reply_queue' = Tail(reply_queue)
    /\ shut_left' = shut_left - 1
    /\ UNCHANGED <<config, pc, exc, n_servers, kick, egg_file, egg_on_disk,
                   stop, disp, shared, reply_queue_live, server_lock, threads,
                   env>>

ShutdownTimeout ==
    /\ pc = "shutdown"
    /\ shut_left > 0
    /\ reply_queue = <<>>
    /\ shut_left' = shut_left - 1
    /\ UNCHANGED <<config, pc, exc, n_servers, kick, egg_file, egg_on_disk,
                   stop, disp, shared, chans, threads, env>>

\* lines 236-238: drop the reply queue and the lock; _start returns
ShutdownDone ==
    /\ pc = "shutdown"
    /\ shut_left = 0
    /\ reply_queue' = <<>>
    /\ reply_queue_live' = FALSE
    /\ server_lock' = NoneS
    /\ pc' = "cleanup"
    /\ UNCHANGED <<config, exc, n_servers, kick, shut_left, egg_file,
                   egg_on_disk, stop, disp, shared, threads, env>>

\* a variant of lines 109-114 in which the stop hides the error of _start
ExitOf_StopMasks(e, st) == IF st THEN "RunStopped" ELSE e

\* execute, lines 109-114: what execute ends with after _cleanup: the
\* exception e of _start, else RunStopped if a stop was requested, else
\* nothing
ExitOf(e, st) == IF e # NoneS THEN e ELSE IF st THEN "RunStopped" ELSE NoneS

\* execute, lines 111-114: _cleanup, then the exception of _start goes on,
\* or RunStopped is raised if a stop was requested
Cleanup ==
    /\ pc = "cleanup"
    /\ IF egg_file # NoneS /\ egg_on_disk
       THEN /\ \E removed \in (IF win32 THEN BOOLEAN ELSE {TRUE}) :
                 egg_on_disk' = ~removed
            /\ egg_file' = NoneS
       ELSE UNCHANGED <<egg_file, egg_on_disk>>
    /\ exc' = ExitOf(exc, stop)
    /\ pc' = IF ExitOf(exc, stop) # NoneS THEN "raised" ELSE "done"
    /\ UNCHANGED <<config, n_servers, kick, shut_left, stop, disp, shared,
                   chans, threads, env>>

\* Driver.stop(): the stop request of another thread or of the model
StopRequest ==
    /\ pc \notin {"execute", "done", "raised"}
    /\ ~stop
    /\ stop' = TRUE
    /\ UNCHANGED <<config, orch, disp, shared, chans, threads, env>>

\* -------------------------------------------------- _service_loop threads
Workers == DOMAIN wpc

\* self._reply_queue.put((name, result)): on a reply queue that _start has
\* already set to None the put raises and the thread dies.
Reply(name, result, next_wpc) ==
    IF reply_queue_live
    THEN /\ reply_queue' = Put(reply_queue, <<name, result>>)
         /\ wpc' = [wpc EXCEPT ![name] = next_wpc]
    ELSE /\ reply_queue' = reply_queue
         /\ wpc' = [wpc EXCEPT ![name] = "crashed"]

\* what the environment may do to an allocation or to a remote load
InfraOutcomes == IF faults < MaxFaults THEN {TRUE, FALSE} ELSE {TRUE}

\* lines 373-379: RAM.allocate; on failure reply (name, False) and return
WAllocate(name) ==
    /\ wpc[name] = "allocate"
    /\ \E ok \in InfraOutcomes :
         IF ok
         THEN /\ wpc' = [wpc EXCEPT ![name] = "lock"]
              /\ UNCHANGED <<reply_queue, faults>>
         ELSE /\ Reply(name, "False", "exit")
              /\ faults' = faults + 1
    /\ UNCHANGED <<config, orch, stop, disp, shared, reply_queue_live,
                   server_lock, wreq, released, last_load, unexpected>>

\* a variant of line 383 that registers without taking the lock
WAcquire_NoLock(name) ==
    /\ wpc[name] = "lock"
    /\ wpc' = [wpc EXCEPT ![name] = "register"]
    /\ UNCHANGED <<config, orch, stop, disp, shared, chans, wreq, released,
                   env>>

\* line 383: with self._server_lock
WAcquire(name) ==
    /\ wpc[name] = "lock"
    /\ server_lock = "free"
    /\ server_lock' = "held"
    /\ wpc' = [wpc EXCEPT ![name] = "register"]
    /\ UNCHANGED <<config, orch, stop, disp, shared, reply_queue,
                   reply_queue_live, wreq, released, env>>

\* lines 384-388: register server, server_info and request queue under the
\* lock, release it, acknowledge the startup
WRegister(name) ==
    /\ wpc[name] = "register"
    /\ servers' = Set(servers, name, name)
    /\ server_info' = Set(server_info, name, NoneS)
    /\ queues' = Set(queues, name, <<>>)
    /\ server_lock' = "free"
    /\ Reply(name, "True", "serve")
    /\ UNCHANGED <<config, orch, stop, disp, top_levels, exceptions,
                   reply_queue_live, wreq, released, env>>

\* lines 391-393: take the next request; None ends the loop
WGet(name) ==
    /\ wpc[name] = "serve"
    /\ queues[name] # <<>>
    /\ queues' = [queues EXCEPT ![name] = Tail(@)]
    /\ IF Head(queues[name]) = StopReq
       THEN /\ wpc' = [wpc EXCEPT ![name] = "release"]
            /\ wreq' = wreq
       ELSE /\ wpc' = [wpc EXCEPT ![name] = "run"]
            /\ wreq' = [wreq EXCEPT ![name] = Head(queues[name])]
    /\ UNCHANGED <<config, orch, stop, disp, servers, top_levels, server_info,
                   exceptions, chans, released, env>>

\* _remote_load_model: transfer the egg if it changed, load it, keep the
\* top-level object; the reply carries True or False
WLoad(name) ==
    /\ wpc[name] = "run"
    /\ wreq[name] = LoadReq
    /\ wreq' = [wreq EXCEPT ![name] = NoneS]
    /\ server_info' = [server_info EXCEPT ![name] = egg_file]
    /\ \E ok \in InfraOutcomes :
         /\ top_levels' = IF ok THEN Set(top_levels, name, "tlo")
                          ELSE top_levels
         /\ faults' = IF ok THEN faults ELSE faults + 1
         /\ last_load' = Set(last_load, name, IF ok THEN "ok" ELSE "failed")
         /\ Reply(name, IF ok THEN "True" ELSE "False", "serve")
    /\ UNCHANGED <<config, orch, stop, disp, servers, queues, exceptions,
                   reply_queue_live, server_lock, released, unexpected>>

\* top_levels[server].run(): without a top-level object it raises
\* (KeyError); otherwise the model decides
RemoteRunOutcomes(name) ==
    IF name \notin DOMAIN top_levels THEN {ExcMsg} ELSE RunOutcomes

\* _remote_model_execute: run the model, keep its exception; the reply
\* carries None
WExecute(name) ==
    /\ wpc[name] = "run"
    /\ wreq[name] = ExecReq
    /\ wreq' = [wreq EXCEPT ![name] = NoneS]
    /\ \E raised \in RemoteRunOutcomes(name) :
         /\ exceptions' = IF raised # NoneS THEN Set(exceptions, name, raised)
                          ELSE exceptions
         /\ cases' = IF server_cases[name] = None THEN cases
                     ELSE [cases EXCEPT
                             ![server_cases[name]].raises = (raised # NoneS),
                             ![server_cases[name]].raised = raised]
    /\ Reply(name, "None", "serve")
    /\ UNCHANGED <<config, orch, stop, iter_pos, todo, rerun, recorder, in_use,
                   server_states, server_cases, servers, top_levels, server_info,
                   queues, reply_queue_live, server_lock, released, env>>

\* lines 397-398: release the server, acknowledge the shutdown
WRelease(name) ==
    /\ wpc[name] = "release"
    /\ released' = [released EXCEPT ![name] = @ + 1]
    /\ Reply(name, "True", "exit")
    /\ UNCHANGED <<config, orch, stop, disp, shared, reply_queue_live,
                   server_lock, wreq, env>>

Allocate == \E name \in Workers : WAllocate(name)
Acquire  == \E name \in Workers : WAcquire(name)
Register == \E name \in Workers : WRegister(name)
Get      == \E name \in Workers : WGet(name)
Load     == \E name \in Workers : WLoad(name)
Execute  == \E name \in Workers : WExecute(name)
Release  == \E name \in Workers : WRelease(name)

Worker ==
    \/ Allocate
    \/ Acquire
    \/ Register
    \/ Get
    \/ Load
    \/ Execute
    \/ Release

\* ---------------------------------------------------------- specification
Orchestrator ==
    \/ StartSequential
    \/ StartConcurrent
    \/ SeqLoop
    \/ StartServer
    \/ StartupDone
    \/ WinRecv
    \/ PollRecv
    \/ PollBreak
    \/ Kickoff
    \/ KickoffDone
    \/ DrainRecv
    \/ Shutdown
    \/ ShutdownRecv
    \/ ShutdownTimeout
    \/ ShutdownDone
    \/ Cleanup

Next == Orchestrator \/ StopRequest \/ Worker

Spec == Init /\ [][Next]_vars

\* the orchestrator thread keeps running: execute is a plain call
FairSpec == Spec /\ WF_vars(Orchestrator)

\* ------------------------------------------------- the methods of Case
\* The methods of Case are pure: they are applied to Case objects drawn
\* from CaseObjs, next to a driver that has not been started.
CaseInit ==
    /\ DriverInit
    /\ sequential /\ reload_model /\ ~win32
    /\ max_retries = 0 /\ ram_max_servers = 0 /\ iter_len = 0
    /\ case_max_retries = None
    /\ lib_pc = "new"
    /\ lib_a \in CaseObjs
    /\ lib_b \in Others(lib_a)
    /\ lib_sub = NoSubcase /\ lib_eq = FALSE

\* sc = a.subcase(a.keys())
Subcase ==
    /\ lib_pc = "new"
    /\ lib_sub' = Case_subcase(lib_a, Case_keys(lib_a))
    /\ lib_pc' = "subcase"
    /\ UNCHANGED <<lib_a, lib_b, lib_eq>>
    /\ UNCHANGED <<sequential, reload_model, max_retries, win32,
                   ram_max_servers, iter_len, case_max_retries>>
    /\ UNCHANGED <<orch, stop, disp, shared, chans, threads, env>>

\* a == b
Compare ==
    /\ lib_pc = "subcase"
    /\ lib_eq' = Case_eq(lib_a, lib_b)
    /\ lib_pc' = "eq"
    /\ UNCHANGED <<lib_a, lib_b, lib_sub>>
    /\ UNCHANGED <<sequential, reload_model, max_retries, win32,
                   ram_max_servers, iter_len, case_max_retries>>
    /\ UNCHANGED <<orch, stop, disp, shared, chans, threads, env>>

CaseNext == Subcase \/ Compare

CaseSpec == CaseInit /\ [][CaseNext]_vars

TypeOK ==
    /\ pc \in {"execute", "seq", "startup", "win_recv", "poll", "kickoff",
               "drain", "shutdown", "cleanup", "done", "raised"}
    /\ \A n \in DOMAIN server_states : server_states[n] \in States

\* ------------------------------------------------------------ properties
Count(c, q) == Cardinality({i \in DOMAIN q : q[i] = c})

InSeq(c, q) == \E i \in DOMAIN q : q[i] = c

\* this step is a call _server_ready(w)
Handled(w) ==
    \/ /\ pc = "seq" /\ w = None
       /\ stop' = stop /\ vars' # vars
    \/ /\ pc \in {"poll", "drain"} /\ _busy
       /\ reply_queue # <<>> /\ reply_queue' = Tail(reply_queue)
       /\ Head(reply_queue)[1] = w
       /\ pc = "drain" \/ servers[w] # None
    \/ /\ pc = "kickoff" /\ w \in kick /\ kick' = kick \ {w} /\ in_use[w]

\* the call of this step returned in_use = b
Returned(w, b) ==
    IF w = None THEN (pc' = "seq") = b
    ELSE exc' = exc /\ in_use'[w] = b

\* the orchestrator waits for a reply that no thread will ever send
Stalled ==
    /\ pc = "drain" /\ _busy /\ reply_queue = <<>>
    /\ \A n \in Workers :
         \/ wpc[n] \in {"exit", "crashed"}
         \/ wpc[n] = "serve" /\ queues[n] = <<>>

\* a stalled run stays stalled and records nothing more
StalledForever == [][Stalled => Stalled' /\ recorder' = recorder]_vars

\* execute has returned or raised
Returns == pc \in {"done", "raised"}

\* C1: when _server_ready handles a server in the Ready state while the
\* stop flag is set, it returns in_use = False and takes no case from todo,
\* rerun or the iterator, and starts none.
C1_StopTakesNoCase ==
    [][\A w \in DOMAIN server_states :
         (Handled(w) /\ server_states[w] = _READY /\ stop)
         => /\ Returned(w, FALSE)
            /\ todo' = todo /\ rerun' = rerun /\ iter_pos' = iter_pos
            /\ server_cases'[w] = server_cases[w]
            /\ server_states'[w] = _READY]_vars

\* C2: in concurrent mode a case whose setup failed with a ServerError
\* while retries < max_retries is run again and recorded, and execute
\* returns: a run with such a case never comes to a standstill.
C2_RerunIsRun ==
    ~sequential
    => \A c \in DOMAIN cases :
         (cases[c].setup_failures > 0 /\ cases[c].msg # SetMsg) => ~Stalled

\* C3: a server whose allocation failed is marked not in use once its reply
\* is consumed, _server_ready is never called for it, and execute does not
\* raise because of it, whichever receive consumes the reply.
C3_AllocationFailure ==
    /\ [](exc # "KeyError")
    /\ [](\A w \in Workers :
            (wpc[w] = "exit" /\ servers[w] = None
               /\ ~InSeq(<<w, "False">>, reply_queue))
            => ~in_use[w])
    /\ [][\A w \in Workers : Handled(w) => servers[w] # None]_vars

\* the retries of case c when this step's _run_case reached its try block
RetriesAtTry(c) ==
    IF c \in DOMAIN cases /\ cases[c].retries # None
    THEN cases[c].retries ELSE 0

SetupFailures(c) ==
    IF c \in DOMAIN cases THEN cases[c].setup_failures ELSE 0

\* the setup of case c failed with a ServerError in this step
SetupFailed(c) ==
    c \in DOMAIN cases' /\ cases'[c].setup_failures = SetupFailures(c) + 1

\* C4: a setup ServerError in _run_case puts the server in the Error state;
\* with retries < max_retries the case gets retries + 1 and is appended to
\* rerun and not recorded, otherwise it gets the error text as msg, is
\* appended to the recorder once and is not put on rerun.
C4_SetupFailure ==
    [][\A c \in 1..iter_len :
         SetupFailed(c)
         => /\ \E w \in DOMAIN server_states' :
                 /\ server_cases'[w] = c
                 /\ server_states'[w] = _ERROR
            /\ IF RetriesAtTry(c) < cases'[c].max_retries
               THEN /\ cases'[c].retries = RetriesAtTry(c) + 1
                    /\ rerun' # <<>>
                    /\ rerun'[Len(rerun')] = c
                    /\ Count(c, rerun') = 1
                    /\ recorder' = recorder
                    /\ ~InSeq(c, recorder)
               ELSE /\ cases'[c].retries = RetriesAtTry(c)
                    /\ cases'[c].msg = SetMsg
                    /\ recorder' = Append(recorder, c)
                    /\ Count(c, recorder') = 1
                    /\ ~InSeq(c, rerun')]_vars

\* a case was put on rerun and its server is in the Error state
C4_Witness ==
    \E w \in DOMAIN server_states :
        /\ server_states[w] = _ERROR
        /\ server_cases[w] # None
        /\ InSeq(server_cases[w], rerun)
        /\ cases[server_cases[w]].retries = 1

\* str(exc) of the exceptions a model raises
StrOf(e) == IF e = ExcMsg THEN "model exception" ELSE ""

\* the server w holds the finished run of a case whose model raised
RaisedOn(w) ==
    /\ server_states[w] = _COMPLETE
    /\ exceptions[w] # NoneS

RunOver == Returns \/ Stalled

\* C6: for the same iterator and the same deterministic model, a sequential
\* and a concurrent run record the same multiset of cases: without
\* infrastructure faults and without a stop request, in either mode every
\* case of the iterator is on the recorder exactly once when the run is
\* over, with the msg that the model's behaviour on it gives.
C6_SameMultiset ==
    (RunOver /\ faults = 0 /\ ~stop /\ exc = NoneS)
    => /\ Len(recorder) = iter_len
       /\ \A c \in 1..iter_len :
            /\ Count(c, recorder) = 1
            /\ cases[c].msg = IF cases[c].raises THEN StrOf(cases[c].raised)
                              ELSE NoneS

\* the max_retries a case is entitled to: its own when it was given one
OwnMaxRetries ==
    IF case_max_retries = None THEN max_retries ELSE case_max_retries

\* C7: a case is re-run after setup failures at most max_retries times,
\* max_retries being the case's own value when it was given one (0
\* included) and the driver's only when the case has none.
C7_RerunsWithinOwnMax ==
    \A c \in DOMAIN cases : cases[c].reruns <= OwnMaxRetries

\* C8: for every case the driver has started, retries <= max_retries.
C8_RetriesWithinMax ==
    \A c \in DOMAIN cases :
        cases[c].retries # None
        => /\ cases[c].max_retries # None
           /\ cases[c].retries <= cases[c].max_retries

\* a case waits on rerun with its retries used up
C8_Witness ==
    \E c \in DOMAIN cases :
        /\ InSeq(c, rerun)
        /\ cases[c].retries > 0
        /\ cases[c].retries = cases[c].max_retries

\* C9: a failed load_model never leaves a server in Ready.
C9_FailedLoadNotReady ==
    \A w \in DOMAIN last_load :
        last_load[w] = "failed" => server_states[w] # _READY

\* the transitions of the table of server states
Transitions ==
    {<<_EMPTY, _READY>>, <<_EMPTY, _ERROR>>,
     <<_READY, _COMPLETE>>, <<_READY, _ERROR>>,
     <<_COMPLETE, _READY>>,
     <<_ERROR, _READY>>}

\* C10: the state of every server is one of Empty, Ready, Complete, Error,
\* starts at Empty and changes only along the transitions of the table; the
\* 'unexpected state' branch of _server_ready is never taken.
C10_ServerStates ==
    /\ [](~unexpected /\ \A w \in DOMAIN server_states :
                           server_states[w] \in States)
    /\ [][\A w \in DOMAIN server_states' :
            IF w \in DOMAIN server_states
            THEN \/ server_states'[w] = server_states[w]
                 \/ <<server_states[w], server_states'[w]>> \in Transitions
            ELSE server_states'[w] = _EMPTY]_vars

\* the sequential server came back from Error to Ready: it holds no case
\* and the case whose setup failed waits on rerun
C10_Witness ==
    /\ sequential
    /\ None \in DOMAIN server_states
    /\ server_states[None] = _READY
    /\ server_cases[None] = None
    /\ rerun # <<>>

\* C11: a Ready step takes the next case from todo when todo is non-empty,
\* from rerun only when todo is empty, from the iterator only when both are
\* empty, and releases the server for exhaustion only when todo, rerun and
\* the iterator are all empty.
C11_SelectionOrder ==
    [][\A w \in DOMAIN server_states :
         (Handled(w) /\ server_states[w] = _READY)
         => /\ todo # <<>>
               => /\ todo' = Tail(todo)
                  /\ server_cases'[w] = Head(todo)
                  /\ iter_pos' = iter_pos
                  /\ rerun' \in {rerun, Append(rerun, Head(todo))}
            /\ (todo = <<>> /\ rerun # <<>>)
               => /\ server_cases'[w] = Head(rerun)
                  /\ cases'[Head(rerun)].reruns = cases[Head(rerun)].reruns + 1
                  /\ todo' = todo /\ iter_pos' = iter_pos
                  /\ rerun' \in {Tail(rerun),
                                 Append(Tail(rerun), Head(rerun))}
            /\ (todo = <<>> /\ rerun = <<>> /\ HasNext)
               => /\ iter_pos' = iter_pos + 1
                  /\ server_cases'[w] = iter_pos + 1
                  /\ todo' = todo
            /\ (todo = <<>> /\ rerun = <<>> /\ ~HasNext)
               => /\ Returned(w, FALSE)
                  /\ UNCHANGED <<todo, rerun, iter_pos, cases, recorder,
                                 server_cases, server_states>>
            /\ (Returned(w, FALSE) /\ ~stop)
               => (todo = <<>> /\ rerun = <<>> /\ ~HasNext)]_vars

\* both started servers got their case from todo: case 1 failed its setup
\* and waited on rerun when the other server took case 2 from todo
C11_Witness ==
    /\ win32 /\ n_servers = 2 /\ iter_len = 2
    /\ todo = <<>> /\ rerun = <<1>>
    /\ \E w \in DOMAIN server_states :
         /\ server_states[w] = _COMPLETE
         /\ server_cases[w] = 2
         /\ cases[2].reruns = 0

\* this step is a step of the _service_loop thread of server n
WorkerStep(n) == n \in DOMAIN wpc /\ wpc'[n] # wpc[n]

\* f changes at most at key n, which it already has
OnlyAt(f, g, n) ==
    /\ DOMAIN g = DOMAIN f \cup (IF g # f THEN {n} ELSE {})
    /\ \A k \in DOMAIN f : k # n => g[k] = f[k]

\* the state of the dispatcher, written by the orchestrator only
DispatcherState ==
    <<iter_pos, todo, rerun, recorder, in_use, server_states, server_cases>>

\* C12: a _service_loop thread writes driver state only while it registers
\* and holds the server lock; the exception slots, the top-level objects
\* and the server-info descriptors are written by the orchestrator only.
C12_WorkersWriteUnderLock ==
    [][\A n \in Workers :
         WorkerStep(n)
         => \/ wpc[n] = "register" /\ server_lock = "held"
            \/ UNCHANGED <<DispatcherState, servers, top_levels, server_info,
                           exceptions>>]_vars

\* C12 as the code has it: a _service_loop thread writes servers,
\* server_info and queues for its own name while it registers, holding the
\* server lock; afterwards it writes, without the lock, only its own
\* server's server-info descriptor and top-level object (while it serves a
\* load request) and its own server's exception slot (while it serves an
\* execute request); the state of the dispatcher is written by the
\* orchestrator only, which never writes top_levels or server_info.
C12_WorkerWrites ==
    [][/\ \A n \in Workers :
            WorkerStep(n)
            => /\ UNCHANGED DispatcherState
               /\ IF wpc[n] = "register"
                  THEN /\ server_lock = "held"
                       /\ OnlyAt(servers, servers', n)
                       /\ OnlyAt(server_info, server_info', n)
                       /\ OnlyAt(queues, queues', n)
                       /\ UNCHANGED <<top_levels, exceptions>>
                  ELSE /\ servers' = servers
                       /\ DOMAIN queues' = DOMAIN queues
                       /\ OnlyAt(server_info, server_info', n)
                       /\ OnlyAt(top_levels, top_levels', n)
                       /\ OnlyAt(exceptions, exceptions', n)
                       /\ (top_levels' # top_levels
                             \/ server_info' # server_info)
                          => wpc[n] = "run" /\ wreq[n] = LoadReq
                       /\ exceptions' # exceptions
                          => wpc[n] = "run" /\ wreq[n] = ExecReq
       /\ (\A n \in Workers : ~WorkerStep(n))
          => UNCHANGED <<top_levels, server_info>>]_vars

\* a thread has stored the top-level object and the exception of a run
C12_Witness ==
    \E n \in Workers :
        /\ n \in DOMAIN top_levels
        /\ n \in DOMAIN exceptions
        /\ exceptions[n] = ExcMsg
        /\ wpc[n] = "serve"

\* the thread of server n has ended: it returned, or an exception ended it
ThreadOver(n) == wpc[n] \in {"exit", "crashed"}

\* C13: in a concurrent run that ends normally or with a stop, every server
\* that was allocated is released to the allocator exactly once: no thread
\* of an allocated server ends without having released it, and none
\* releases twice, also when a shutdown receive timed out or a
\* model_execute was still running at shutdown.
C13_ReleasedOnce ==
    (~sequential /\ exc \in {NoneS, "RunStopped"})
    => \A n \in Workers :
         /\ released[n] <= 1
         /\ (ThreadOver(n) /\ servers[n] # None) => released[n] = 1

\* this step starts the thread of a new server
Launches == n_servers' = n_servers + 1

\* the thread of server n has sent its startup reply
Acknowledged(n) == wpc[n] \notin {"allocate", "lock", "register"}

\* C14: on win32 a server is started only after the startup reply of the
\* one before it was received; _server_ready is called for no server before
\* the last one was started and has replied; a server whose allocation
\* failed is marked not in use and _server_ready is never called for it.
C14_SerializedStartup ==
    /\ [][(win32 /\ Launches)
            => /\ reply_queue = <<>>
               /\ \A n \in Workers : Acknowledged(n)]_vars
    /\ [][\A w \in Workers :
            (win32 /\ Handled(w))
            => /\ pc \in {"kickoff", "drain"}
               /\ \A n \in Workers : Acknowledged(n)
               /\ servers[w] # None]_vars
    /\ [][(win32 /\ pc \notin {"execute", "startup", "win_recv", "poll"})
            => ~Launches]_vars
    /\ [](\A w \in Workers :
            (win32 /\ pc \in {"startup", "kickoff", "drain", "shutdown"}
               /\ servers[w] = None)
            => ~in_use[w])

\* win32: two servers were started, the first failed to allocate and is
\* not in use, the second was kicked off after the startup loop
C14_Witness ==
    /\ win32 /\ n_servers = 2 /\ pc = "drain"
    /\ servers[1] = None /\ ~in_use[1] /\ server_states[1] = _EMPTY
    /\ servers[2] # None /\ in_use[2] /\ server_states[2] = _READY

\* C15: never more than max_servers threads are started, and none is
\* started once the iterator is exhausted and rerun is empty: a start with
\* rerun empty goes with one case pulled from the iterator into todo, and a
\* start that pulls no case finds a case on rerun.
C15_ServersStarted ==
    /\ [](n_servers <= ram_max_servers /\ Cardinality(Workers) = n_servers)
    /\ [](faults = 0 => n_servers <= iter_pos)
    /\ [][Launches
            => /\ n_servers < ram_max_servers
               /\ HasNext \/ rerun # <<>>
               /\ IF HasNext
                  THEN /\ iter_pos' = iter_pos + 1
                       /\ todo' = Append(todo, iter_pos + 1)
                  ELSE /\ todo' = todo /\ iter_pos' = iter_pos]_vars

\* the startup loop ended with fewer threads than max_servers because the
\* iterator had no more cases
C15_Witness ==
    /\ pc = "drain" /\ iter_len = 1
    /\ n_servers = 1 /\ ram_max_servers = 2
    /\ rerun = <<>>

\* the attempt of case c that was recorded went through: its inputs were
\* set, its model raised nothing and its outputs were read
WentThrough(c) == cases[c].err = "none" /\ ~cases[c].raises

\* C16: a case on the recorder has an empty msg if and only if its setup
\* succeeded, its model execution raised no exception and every output
\* read succeeded; with any of the three failed its msg is not empty.
C16_MsgIffFailure ==
    \A i \in DOMAIN recorder :
        NoMsg(cases[recorder[i]].msg) <=> WentThrough(recorder[i])

\* C17: the Complete step records the case and returns the server to Ready;
\* after a case that went through it reloads the model if and only if
\* reload_model is set, and after a case recorded with a non-empty msg it
\* always reloads.  (A reload of a remote server is the load request put on
\* its queue; for the sequential server _load_model has nothing to do.)
C17_ReloadAfterCase ==
    [][\A w \in DOMAIN server_states :
         (Handled(w) /\ server_states[w] = _COMPLETE)
         => LET c == server_cases[w]
            IN  /\ recorder' = Append(recorder, c)
                /\ server_states'[w] = _READY
                /\ Returned(w, TRUE)
                /\ w # None
                   => /\ \/ queues'[w] = Append(queues[w], LoadReq)
                         \/ queues'[w] = queues[w]
                      /\ (cases'[c].err = "none" /\ ~cases'[c].raises)
                         => (queues'[w] # queues[w] <=> reload_model)
                      /\ ~NoMsg(cases'[c].msg) => queues'[w] # queues[w]]_vars

\* without reload_model, a server is back in Ready with a load under way
\* after its case was recorded with a non-empty msg
C17_Witness ==
    /\ ~sequential /\ ~reload_model /\ n_servers = 1
    /\ server_states[1] = _READY
    /\ recorder = <<1>>
    /\ ~NoMsg(cases[1].msg)
    /\ last_load[1] = "pending"

\* a concurrent run for which the allocator reports max_servers = 0: no
\* thread, lock or reply queue exists, no case was taken or recorded, and
\* once _start is over execute is on its way out with the RuntimeError
NothingStarted ==
    /\ Workers = {} /\ n_servers = 0
    /\ server_lock = NoneS /\ ~reply_queue_live /\ reply_queue = <<>>
    /\ DOMAIN queues = {}
    /\ iter_pos = 0 /\ cases = <<>> /\ todo = <<>> /\ recorder = <<>>
    /\ pc \in {"execute", "cleanup", "raised"}
    /\ pc # "execute" => exc = "RuntimeError"
    /\ pc = "cleanup" => egg_file # NoneS /\ egg_on_disk

\* C18: in concurrent mode with max_servers = 0, execute fails with an
\* error before any thread, lock or channel is created and before any case
\* is taken or recorded, and _cleanup removes the egg file.
C18_NoCapacity ==
    (~sequential /\ ram_max_servers = 0)
    => /\ NothingStarted
       /\ pc = "raised" => egg_file = NoneS /\ ~egg_on_disk

\* C18 as the code has it: _cleanup forgets the egg file and removes it
\* from the disk, except that on win32 a removal that fails is let pass and
\* the file stays on the disk.
C18_NoCapacityCleanup ==
    (~sequential /\ ram_max_servers = 0)
    => /\ NothingStarted
       /\ pc = "raised" => egg_file = NoneS /\ (egg_on_disk => win32)

\* execute has raised the RuntimeError of max_servers = 0 and the egg file
\* is gone, with cases waiting in the iterator
C18_Witness ==
    /\ ~sequential /\ ram_max_servers = 0 /\ iter_len > 0
    /\ pc = "raised" /\ exc = "RuntimeError"
    /\ egg_file = NoneS /\ ~egg_on_disk

\* C19: on every way out of execute (return, exception of _start, stop)
\* _cleanup has run, once: execute ends only by the step that runs
\* _cleanup, which happens once, and the egg file of a concurrent run is
\* kept until then and forgotten after; RunStopped is raised only by that
\* step, only when a stop was requested and _start raised nothing, and then
\* always; an exception of _start is what execute raises.
C19_CleanupOnce ==
    /\ [][(Returns' /\ ~Returns)
            => /\ pc = "cleanup"
               /\ egg_file' = NoneS
               /\ exc # NoneS => exc' = exc /\ pc' = "raised"
               /\ (exc = NoneS /\ stop)
                  => exc' = "RunStopped" /\ pc' = "raised"
               /\ (exc = NoneS /\ ~stop) => exc' = NoneS /\ pc' = "done"]_vars
    /\ [][Returns => Returns' /\ pc' = pc /\ exc' = exc
                      /\ egg_file' = egg_file]_vars
    /\ [][pc = "cleanup" => pc' \in {"cleanup", "done", "raised"}]_vars
    /\ [][(exc' = "RunStopped" /\ exc # "RunStopped")
            => pc = "cleanup" /\ stop /\ exc = NoneS]_vars
    /\ [](Returns => egg_file = NoneS)
    /\ []((~sequential /\ pc \notin {"execute", "done", "raised"})
            => egg_file # NoneS)

\* a concurrent run that was stopped has raised RunStopped with its egg
\* file forgotten and removed, and a case recorded
C19_Witness ==
    /\ ~sequential /\ pc = "raised" /\ exc = "RunStopped"
    /\ stop /\ egg_file = NoneS /\ ~egg_on_disk
    /\ recorder # <<>>

\* so far nothing failed: no infrastructure fault, no exception of the
\* model, no stop request
NoFailure ==
    /\ faults = 0 /\ ~stop
    /\ \A c \in DOMAIN cases : ~cases[c].raises

\* C20: a sequential run without failures records every case of the
\* iterator once, in the order of the iterator, each with an empty msg, and
\* execute then returns.
C20_SequentialRun ==
    /\ []((sequential /\ NoFailure)
            => /\ \A i \in DOMAIN recorder :
                    recorder[i] = i /\ NoMsg(cases[i].msg)
               /\ pc # "raised"
               /\ pc = "done" => Len(recorder) = iter_len)
    /\ sequential ~> (pc = "done" \/ ~NoFailure)

\* a sequential run of two cases without failures has returned
C20_Witness ==
    /\ sequential /\ NoFailure /\ pc = "done"
    /\ iter_len = 2 /\ recorder = <<1, 2>>

\* C21: a sequential run on an empty iterator returns without error,
\* records nothing, creates no server state and never calls _server_ready
\* (the only exception execute can end with is RunStopped, after a stop
\* request).
C21_EmptySequential ==
    (sequential /\ iter_len = 0)
    => /\ recorder = <<>> /\ cases = <<>> /\ todo = <<>> /\ rerun = <<>>
       /\ DOMAIN server_states = {} /\ DOMAIN server_cases = {}
       /\ DOMAIN in_use = {} /\ Workers = {}
       /\ pc \in {"execute", "cleanup", "done", "raised"}
       /\ exc \in {NoneS, "RunStopped"}
       /\ pc = "raised" => stop
       /\ (pc = "cleanup" /\ ~stop) => ENABLED Cleanup

\* a sequential run on an empty iterator has returned
C21_Witness ==
    /\ sequential /\ iter_len = 0
    /\ pc = "done" /\ exc = NoneS /\ recorder = <<>>

\* C22: for every case C, C.subcase(C.keys()) raises no error and its items()
\* equal C.items() in content and order (None-valued inputs and sentinel
\* outputs included).
C22_SubcaseRoundTrip ==
    lib_pc \in {"subcase", "eq"}
    => /\ lib_sub.raised = NoneS
       /\ Case_items(lib_sub.case, FALSE) = Case_items(lib_a, FALSE)

\* C23: two cases compare equal if and only if their msg and label match and
\* their flattened item sequences have the same length and are equal
\* element by element; a prefix match is not equality.
C23_EqualIffFlattenedEqual ==
    lib_pc = "eq"
    => (lib_eq <=> /\ lib_a.msg = lib_b.msg
                   /\ lib_a.label = lib_b.label
                   /\ Case_items(lib_a, TRUE) = Case_items(lib_b, TRUE))

\* C24: in concurrent mode, without infrastructure fault and without stop
\* request, the drain loop exits and execute returns, with reload_model true
\* and with reload_model false alike: the orchestrator never waits on the
\* reply queue while no in-use worker has a request pending or a reply
\* outstanding.
C24_DrainLoopExits ==
    (~sequential /\ faults = 0 /\ ~stop) => ~Stalled

\* C25: whenever execute returns without a stop having been requested, every
\* case taken from the iterator is on the recorder exactly once: none is
\* left in todo, in rerun or in a server's case slot, none is recorded twice.
C25_TakenIsRecordedOnce ==
    (pc = "done" /\ ~stop)
    => \A c \in DOMAIN cases : Count(c, recorder) = 1

\* the load_model and model_execute requests of worker n that are queued or
\* being executed
InFlight(n) ==
    (IF n \in DOMAIN queues
     THEN Count(LoadReq, queues[n]) + Count(ExecReq, queues[n]) ELSE 0)
    + (IF wpc[n] = "run" THEN 1 ELSE 0)

\* C26: in concurrent mode each worker has at most one load_model or
\* model_execute request queued or executing at any time, its thread takes
\* the requests in the order of submission and publishes exactly one reply
\* for each, and the dispatcher handles a worker (setting inputs, getting
\* outputs) only while no remote operation of that worker is in flight.
C26_OneOperationPerWorker ==
    /\ [](\A n \in Workers : InFlight(n) <= 1)
    /\ [][\A n \in Workers :
            /\ (wpc[n] = "serve" /\ wpc'[n] = "run")
               => /\ wreq'[n] = Head(queues[n])
                  /\ queues'[n] = Tail(queues[n])
            /\ (wpc[n] = "run" /\ wpc'[n] # "run")
               => /\ wpc'[n] = "serve"
                  /\ \E r \in {"True", "False", "None"} :
                        reply_queue' = Append(reply_queue, <<n, r>>)
            /\ Handled(n) => InFlight(n) = 0]_vars

\* the reply at the head of the reply queue is the shutdown acknowledgement
\* of its worker: the thread has released its server and this is its last
\* reply
HeadIsAck ==
    LET n == Head(reply_queue)[1]
    IN  /\ wpc[n] = "exit" /\ released[n] = 1
        /\ Cardinality({i \in DOMAIN reply_queue : reply_queue[i][1] = n}) = 1

\* C27: when _start discards the reply queue at the end of a concurrent run,
\* every registered worker has published its shutdown acknowledgement, every
\* reply the shutdown loop consumed was such an acknowledgement, and no
\* worker thread ever puts a reply on the discarded queue.
C27_DiscardAfterAcks ==
    /\ [][(pc = "shutdown" /\ pc' = "cleanup")
           => \A n \in DOMAIN queues : wpc[n] = "exit"]_vars
    /\ [][(pc = "shutdown" /\ pc' = "shutdown" /\ reply_queue # <<>>
             /\ reply_queue' = Tail(reply_queue))
           => HeadIsAck]_vars
    /\ [](\A n \in Workers : wpc[n] # "crashed")
====
